---- MODULE Spec2Model ----
(***************************************************************************)
(* SegTree<T, F> of src/src/tree.rs: a segment tree kept in one Vec<T>     *)
(* (`container`, 1-indexed implicit binary tree, slot 0 unused) with a     *)
(* caller-supplied associative `func`.                                     *)
(*                                                                         *)
(* The model keeps the Vec as a function on 0..n-1, every Vec index as a   *)
(* bounds-checked access (Rust panics on an out-of-range index), usize     *)
(* shifts at their width, and debug_assert! as a check that exists only    *)
(* when the build has debug assertions.                                    *)
(***************************************************************************)
EXTENDS Integers, FiniteSets, Sequences, TLC

\* Largest size / vector length handed to a constructor (besides the
\* wrapping sizes below).
MaxSize == 3

\* Width of usize.  Rust fixes it per target (16, 32 or 64 bits); `<<` on a
\* usize drops the bits shifted out, in debug and release builds alike.
\* The model takes the narrowest target so that the wrapping sizes are
\* numbers TLC can hold; at 64 bits the same cases are 2^62 and 2^62 + 1.
USIZE_BITS == 16

USIZE_MOD == 2 ^ USIZE_BITS

\* x << k and x >> k on usize.
Shl(x, k) == (x * (2 ^ k)) % USIZE_MOD

Shr(x, k) == x \div (2 ^ k)

\* Sizes whose `size << 2` wraps.
WrapSizes == {2 ^ (USIZE_BITS - 2), 2 ^ (USIZE_BITS - 2) + 1}

Sizes == (0 .. MaxSize) \cup WrapSizes

\* T = unsigned integers.  Values are what callers store; Defaults are what
\* `new` may be given as `default` (0 is the identity of both functions).
Values == {1, 2}

Defaults == {0, 1, 2}

\* The closures handed in as `func`.  "add" is the tests' |a, b| a + b.
\* "cat" reads a number as the string of its base-3 digits and concatenates:
\* associative, not commutative, and (on strings of the digits 1 and 2) the
\* free monoid, so every associative func is a homomorphic image of it.
Funcs == {"add", "cat"}

RECURSIVE Digits(_)
Digits(b) == IF b = 0 THEN 0 ELSE 1 + Digits(b \div 3)

Add(a, b) == a + b

Cat(a, b) == a * (3 ^ Digits(b)) + b

\* (self.func)(a, b)
Apply(f, a, b) == IF f = "add" THEN Add(a, b) ELSE Cat(a, b)

\* ---------------------------------------------------------------- Vec<T>
VecLen(c) == Cardinality(DOMAIN c)

\* vec![default; n]
VecNew(default, n) == [i \in 0 .. (n - 1) |-> default]

\* Outcome of a call or of a step of one: st is "ok", "panic" (an assertion
\* or a Vec index out of range) or "diverge" (recursion that never returns:
\* the stack is exhausted); c is the container as the call leaves it, val
\* the value returned, reads / writes the container slots indexed.
Res(st, c, val, reads, writes) ==
    [st |-> st, c |-> c, val |-> val, reads |-> reads, writes |-> writes]

\* self.container[node] as an rvalue.
Load(c, node) ==
    IF node \in DOMAIN c
    THEN Res("ok", c, c[node], {node}, {})
    ELSE Res("panic", c, 0, {node}, {})

\* self.container[node] = v
Store(c, node, v) ==
    IF node \in DOMAIN c
    THEN Res("ok", [c EXCEPT ![node] = v], 0, {}, {node})
    ELSE Res("panic", c, 0, {}, {node})

\* r, with the slots an earlier part of the same call indexed added.
After(reads, writes, r) ==
    [r EXCEPT !.reads = reads \cup @, !.writes = writes \cup @]

\* ------------------------------------------------------------- SegTree
\* len, with the shift back from the allocated length forgotten.
lenOfStore(c) == VecLen(c)

\* SegTree::len
len(c) == Shr(VecLen(c), 2)

\* container: vec![default; size << 2]
Capacity(size) == Shl(size, 2)

\* SegTree::new
new(dbg, size, default) ==
    IF dbg /\ ~(size > 0)
    THEN Res("panic", <<>>, 0, {}, {})
    ELSE Res("ok", VecNew(default, Capacity(size)), 0, {}, {})

\* let mid = (left + right) >> 1
Mid(left, right) == Shr(left + right, 1)

\* Recompute, with the children handed to func in the wrong order.
RecomputeSwapped(c, f, node) ==
    LET a == Load(c, Shl(node, 1))
        b == Load(c, Shl(node, 1) + 1)
    IN  IF a.st # "ok" THEN a
        ELSE IF b.st # "ok" THEN After(a.reads, {}, b)
        ELSE After(a.reads \cup b.reads, {},
                   Store(c, node, Apply(f, b.val, a.val)))

\* Recompute, with the result stored into the left child instead of the node.
RecomputeIntoChild(c, f, node) ==
    LET a == Load(c, Shl(node, 1))
        b == Load(c, Shl(node, 1) + 1)
    IN  IF a.st # "ok" THEN a
        ELSE IF b.st # "ok" THEN After(a.reads, {}, b)
        ELSE After(a.reads \cup b.reads, {},
                   Store(c, Shl(node, 1), Apply(f, a.val, b.val)))

\* let a = container[node << 1]; let b = container[(node << 1) + 1];
\* container[node] = func(a, b)
Recompute(c, f, node) ==
    LET a == Load(c, Shl(node, 1))
        b == Load(c, Shl(node, 1) + 1)
    IN  IF a.st # "ok" THEN a
        ELSE IF b.st # "ok" THEN After(a.reads, {}, b)
        ELSE After(a.reads \cup b.reads, {},
                   Store(c, node, Apply(f, a.val, b.val)))

\* SegTree::apply_vec
RECURSIVE apply_vec(_, _, _, _, _, _)
apply_vec(c, f, node, left, right, vec) ==
    IF left + 1 = right
    THEN IF left \in DOMAIN vec
         THEN Store(c, node, vec[left])
         ELSE Res("panic", c, 0, {}, {})
    ELSE IF right <= left
    THEN Res("diverge", c, 0, {}, {})
    ELSE LET mid == Mid(left, right)
             l == apply_vec(c, f, Shl(node, 1), left, mid, vec)
         IN  IF l.st # "ok" THEN l
             ELSE LET r == After(l.reads, l.writes,
                                 apply_vec(l.c, f, Shl(node, 1) + 1, mid, right, vec))
                  IN  IF r.st # "ok" THEN r
                      ELSE After(r.reads, r.writes, Recompute(r.c, f, node))

\* SegTree::from_vec
from_vec(dbg, vec, f) ==
    IF dbg /\ ~(VecLen(vec) > 0)
    THEN Res("panic", <<>>, 0, {}, {})
    ELSE IF 0 \notin DOMAIN vec
    THEN Res("panic", <<>>, 0, {}, {})
    ELSE LET tree == new(dbg, VecLen(vec), vec[0])
         IN  IF tree.st # "ok" THEN tree
             ELSE apply_vec(tree.c, f, 1, 0, len(tree.c), vec)

\* Covered, with the test of the right end forgotten.
CoveredFromStart(left, right, start, end) == start <= left

\* if start <= left && right <= end
Covered(left, right, start, end) == start <= left /\ right <= end

\* Join, with the two halves handed to func in the wrong order.
JoinSwapped(c, f, a, b) == Res("ok", c, Apply(f, b.val, a.val), b.reads, {})

\* (self.func)(self._get(node << 1, ..), self._get((node << 1) | 1, ..)):
\* a is the outcome of the left call, b of the right call after it.
Join(c, f, a, b) == Res("ok", c, Apply(f, a.val, b.val), b.reads, {})

\* SegTree::_get.  A call on a range of fewer than two elements that is not
\* covered recurses on [left, left) or on the very range it was given; such
\* a call repeats itself with the same left, right, start, end and never
\* returns.
RECURSIVE _get(_, _, _, _, _, _, _)
_get(c, f, node, left, right, start, end) ==
    IF Covered(left, right, start, end)
    THEN Load(c, node)
    ELSE LET mid == Mid(left, right)
             Down(n, l, r) ==
                 IF (l = left /\ r = right) \/ right <= left
                 THEN Res("diverge", c, 0, {}, {})
                 ELSE _get(c, f, n, l, r, start, end)
         IN  IF end <= mid
             THEN Down(Shl(node, 1), left, mid)
             ELSE IF mid <= start
             THEN Down(Shl(node, 1) + 1, mid, right)
             ELSE LET a == Down(Shl(node, 1), left, mid)
                  IN  IF a.st # "ok" THEN a
                      ELSE LET b == After(a.reads, {},
                                          Down(Shl(node, 1) + 1, mid, right))
                           IN  IF b.st # "ok" THEN b
                               ELSE Join(c, f, a, b)

\* SegTree::get
get(dbg, c, f, start, end) ==
    IF dbg /\ ~(start < end)
    THEN Res("panic", c, 0, {}, {})
    ELSE IF dbg /\ ~(end <= len(c))
    THEN Res("panic", c, 0, {}, {})
    ELSE _get(c, f, 1, 0, len(c), start, end)

\* GoesLeft, off by one.
GoesLeftOffByOne(index, mid) == index <= mid

\* if index < mid
GoesLeft(index, mid) == index < mid

\* SegTree::_set.  On an empty range the call recurses on the same empty
\* range and never returns.
RECURSIVE _set(_, _, _, _, _, _, _)
_set(c, f, node, left, right, index, value) ==
    IF left + 1 = right
    THEN Store(c, node, value)
    ELSE IF right <= left
    THEN Res("diverge", c, 0, {}, {})
    ELSE LET mid == Mid(left, right)
             d == IF GoesLeft(index, mid)
                  THEN _set(c, f, Shl(node, 1), left, mid, index, value)
                  ELSE _set(c, f, Shl(node, 1) + 1, mid, right, index, value)
         IN  IF d.st # "ok" THEN d
             ELSE After(d.reads, d.writes, Recompute(d.c, f, node))

\* set, without its assertion.
setUnchecked(dbg, c, f, index, value) ==
    _set(c, f, 1, 0, len(c), index, value)

\* SegTree::set
set(dbg, c, f, index, value) ==
    IF dbg /\ ~(index < len(c))
    THEN Res("panic", c, 0, {}, {})
    ELSE _set(c, f, 1, 0, len(c), index, value)

\* ---------------------------------------------------------------- state
VARIABLES
    debug_assertions,   \* cfg!(debug_assertions) of the build
    constructed,        \* a SegTree value exists
    container,          \* SegTree.container
    func,               \* SegTree.func
    ctor,               \* which constructor built the tree
    size_arg,           \* the size / vector length the constructor was given
    elems,              \* the logical elements: what was passed, then what was set
    in_contract,        \* no call has run outside its documented precondition
    last                \* the latest call: operation, arguments, outcome

vars == <<debug_assertions, constructed, container, func, ctor, size_arg,
          elems, in_contract, last>>

Call(op, a, b, r) ==
    [op |-> op, a |-> a, b |-> b, st |-> r.st, val |-> r.val,
     reads |-> r.reads, writes |-> r.writes]

NoCall == [op |-> "none", a |-> 0, b |-> 0, st |-> "ok", val |-> 0,
           reads |-> {}, writes |-> {}]

Init ==
    /\ debug_assertions \in BOOLEAN
    /\ constructed = FALSE
    /\ container = <<>>
    /\ func = "add"
    /\ ctor = "none"
    /\ size_arg = 0
    /\ elems = <<>>
    /\ in_contract = TRUE
    /\ last = NoCall

\* let tree = SegTree::new(size, default, f);
CallNew(size, default, f) ==
    /\ ~constructed
    /\ LET r == new(debug_assertions, size, default)
       IN  /\ last' = Call("new", size, default, r)
           /\ IF r.st = "ok"
              THEN /\ constructed' = TRUE
                   /\ container' = r.c
                   /\ func' = f
                   /\ ctor' = "new"
                   /\ size_arg' = size
                   /\ elems' = [i \in 0 .. (len(r.c) - 1) |-> default]
                   /\ in_contract' = (size > 0)
              ELSE UNCHANGED <<constructed, container, func, ctor, size_arg,
                               elems, in_contract>>
    /\ UNCHANGED debug_assertions

\* let tree = SegTree::from_vec(&vec, f);
CallFromVec(vec, f) ==
    /\ ~constructed
    /\ LET r == from_vec(debug_assertions, vec, f)
       IN  /\ last' = Call("from_vec", VecLen(vec), 0, r)
           /\ IF r.st = "ok"
              THEN /\ constructed' = TRUE
                   /\ container' = r.c
                   /\ func' = f
                   /\ ctor' = "from_vec"
                   /\ size_arg' = VecLen(vec)
                   /\ elems' = vec
                   /\ in_contract' = TRUE
              ELSE UNCHANGED <<constructed, container, func, ctor, size_arg,
                               elems, in_contract>>
    /\ UNCHANGED debug_assertions

\* The process is alive: a panic unwinds to the caller, which may go on using
\* the tree; exhausting the stack aborts the process.
Alive == last.st # "diverge"

\* tree.get(start, end)
CallGet(start, end) ==
    /\ constructed
    /\ Alive
    /\ LET r == get(debug_assertions, container, func, start, end)
       IN  last' = Call("get", start, end, r)
    /\ UNCHANGED <<debug_assertions, constructed, container, func, ctor,
                   size_arg, elems, in_contract>>

\* tree.set(index, value)
CallSet(index, value) ==
    /\ constructed
    /\ Alive
    /\ LET r == set(debug_assertions, container, func, index, value)
       IN  /\ last' = Call("set", index, value, r)
           /\ container' = r.c
           /\ IF index < len(container)
              THEN /\ elems' = [elems EXCEPT ![index] = value]
                   /\ UNCHANGED in_contract
              ELSE /\ in_contract' = (in_contract /\ r.st = "panic" /\ r.c = container)
                   /\ UNCHANGED elems
    /\ UNCHANGED <<debug_assertions, constructed, func, ctor, size_arg>>

Vecs == UNION {[0 .. (n - 1) -> Values] : n \in 0 .. MaxSize}

\* The arguments callers pass: every index up to one past len().
Args == 0 .. (len(container) + 1)

Construct ==
    \/ \E size \in Sizes, default \in Defaults, f \in Funcs : CallNew(size, default, f)
    \/ \E vec \in Vecs, f \in Funcs : CallFromVec(vec, f)

Query == \E start \in Args, end \in Args : CallGet(start, end)

Update == \E index \in Args, value \in Values : CallSet(index, value)

Next == Construct \/ Query \/ Update

Spec == Init /\ [][Next]_vars

TypeOK ==
    /\ debug_assertions \in BOOLEAN
    /\ constructed \in BOOLEAN
    /\ last.st \in {"ok", "panic", "diverge"}

\* ------------------------------------------------------- reference notions
\* The calls that meet their documented preconditions.
Ranges(n) == {p \in (0 .. n) \X (0 .. n) : p[1] < p[2]}

Indices(n) == 0 .. (n - 1)

\* The naive fold: e[a], e[a+1], .., e[b-1] combined left to right.
RECURSIVE Fold(_, _, _, _)
Fold(f, e, a, b) ==
    IF b <= a + 1 THEN e[a] ELSE Apply(f, Fold(f, e, a, b - 1), e[b - 1])

\* The implicit tree over [left, right) rooted at slot node: its nodes as
\* <<slot, left, right>>; and the slots from node down to the leaf of index.
RECURSIVE TreeNodes(_, _, _)
TreeNodes(node, left, right) ==
    IF right <= left THEN {}
    ELSE IF left + 1 = right THEN {<<node, left, right>>}
    ELSE {<<node, left, right>>}
         \cup TreeNodes(2 * node, left, (left + right) \div 2)
         \cup TreeNodes(2 * node + 1, (left + right) \div 2, right)

RECURSIVE PathSlots(_, _, _, _)
PathSlots(node, left, right, index) ==
    IF right <= left + 1 THEN {node}
    ELSE IF index < (left + right) \div 2
    THEN {node} \cup PathSlots(2 * node, left, (left + right) \div 2, index)
    ELSE {node} \cup PathSlots(2 * node + 1, (left + right) \div 2, right, index)

N == len(container)

Tree == TreeNodes(1, 0, N)

Path(index) == PathSlots(1, 0, N, index)

\* get(a, b) on the current tree returns x.
Returns(a, b, x) ==
    LET r == get(debug_assertions, container, func, a, b)
    IN  r.st = "ok" /\ r.val = x

\* ------------------------------------------------------------------ C1
\* C1: on a tree built by from_vec from a non-empty vector and changed only
\* by in-bounds sets, every get(start, end) with 0 <= start < end <= len()
\* returns the left-to-right fold of the current logical elements
\* start..end, for "add" and for the non-commutative "cat"; the latest get,
\* if it was such a call, returned that fold.
C1_GetIsFold ==
    (constructed /\ ctor = "from_vec" /\ in_contract) =>
        /\ \A p \in Ranges(N) : Returns(p[1], p[2], Fold(func, elems, p[1], p[2]))
        /\ (last.op = "get" /\ <<last.a, last.b>> \in Ranges(N)) =>
               (last.st = "ok" /\ last.val = Fold(func, elems, last.a, last.b))
        /\ last.op = "from_vec" => Returns(0, N, Fold(func, elems, 0, N))

\* A get that straddles the root's mid, on a from_vec tree of three elements
\* under "cat", whose first two elements differ so that the order shows.
C1_Witness ==
    /\ constructed /\ ctor = "from_vec" /\ in_contract /\ func = "cat"
    /\ N = 3 /\ elems[0] = 2 /\ elems[1] = 1
    /\ last.op = "get" /\ last.a = 0 /\ last.b = 2 /\ last.st = "ok"
    /\ last.val = Cat(2, 1)

\* ------------------------------------------------------------------ C2
\* C2: after either constructor and any number of completed in-bounds sets,
\* every internal node of the implicit tree stores func(left child, right
\* child) and every leaf stores its logical element.
C2_NodeInvariant ==
    (constructed /\ in_contract) =>
        \A t \in Tree :
            IF t[3] - t[2] >= 2
            THEN container[t[1]] = Apply(func, container[2 * t[1]], container[2 * t[1] + 1])
            ELSE container[t[1]] = elems[t[2]]

\* ------------------------------------------------------------------ C3
\* C3: on a tree built by new(size, default, func) with size >= 1 and changed
\* only by in-bounds sets, every get(start, end) with 0 <= start < end <=
\* len() returns the left-to-right fold of the logical elements, an element
\* never set being default.
C3_NewGetIsFold ==
    (constructed /\ ctor = "new" /\ in_contract /\ size_arg >= 1) =>
        \A p \in Ranges(N) : Returns(p[1], p[2], Fold(func, elems, p[1], p[2]))

\* ------------------------------------------------------------------ C4
\* C4: right after a set(i, v) with i < len(), on a tree built by either
\* constructor and whatever was set before, get(i, i + 1) returns v.
C4_SetThenGet ==
    (constructed /\ last.op = "set" /\ last.a \in Indices(N)) =>
        /\ last.st = "ok"
        /\ Returns(last.a, last.a + 1, last.b)

\* A set in the middle of a tree of new (default 0, still in the unused slot
\* 0) whose two other elements were set before it.
C4_Witness ==
    /\ constructed /\ ctor = "new" /\ N = 3 /\ container[0] = 0
    /\ last.op = "set" /\ last.st = "ok" /\ last.a = 1 /\ last.b = 2
    /\ elems[0] = 1 /\ elems[1] = 2 /\ elems[2] = 1
    /\ Returns(1, 2, 2)

\* ------------------------------------------------------------------ C5
\* C5: a set(i, v) with i < len() leaves get(a, b) as it was for every
\* range 0 <= a < b <= len() that does not contain i.
C5_SetKeepsOtherRanges ==
    [][(constructed /\ last'.op = "set" /\ last'.a \in Indices(N)) =>
          \A p \in Ranges(N) :
              (last'.a < p[1] \/ last'.a >= p[2]) =>
                  LET before == get(debug_assertions, container, func, p[1], p[2])
                      after == get(debug_assertions, container', func, p[1], p[2])
                  IN  /\ before.st = "ok" /\ after.st = "ok"
                      /\ after.val = before.val]_vars

\* A set in the middle of a tree of three elements: ranges lie on both sides.
C5_Witness ==
    /\ constructed /\ N = 3
    /\ last.op = "set" /\ last.st = "ok" /\ last.a = 1
    /\ elems[1] = last.b /\ elems[0] # elems[2]

\* ------------------------------------------------------------------ C6
\* C6: len() equals the size given to new, or the length of the vector given
\* to from_vec, and no set or get changes it.
C6_LenIsSize ==
    constructed => len(container) = size_arg

\* ------------------------------------------------------------------ C7
\* The tree exists and was built and used within the documented
\* preconditions so far.
WellUsed == constructed /\ in_contract /\ size_arg >= 1

\* C7: on such a tree, a get(start, end) with start >= end or end > len(),
\* and a set(index, value) with index >= len(), fail as precondition
\* violations: neither returns, and the set leaves every slot of the store
\* as it was.
C7_MisuseFails ==
    [][/\ (WellUsed /\ last'.op = "get" /\ <<last'.a, last'.b>> \notin Ranges(N)) =>
              last'.st = "panic"
       /\ (WellUsed /\ last'.op = "set" /\ last'.a \notin Indices(N)) =>
              (last'.st = "panic" /\ container' = container)]_vars

\* C7, amended: in a build with debug assertions, such a get and such a set
\* fail as precondition violations, and the set leaves every slot of the
\* store as it was.
C7_MisuseFailsInDebug ==
    [][debug_assertions =>
          /\ (WellUsed /\ last'.op = "get" /\ <<last'.a, last'.b>> \notin Ranges(N)) =>
                 last'.st = "panic"
          /\ (WellUsed /\ last'.op = "set" /\ last'.a \notin Indices(N)) =>
                 (last'.st = "panic" /\ container' = container)]_vars

\* A refused set one past the end of a tree of three elements.
C7_Witness ==
    /\ debug_assertions /\ constructed /\ N = 3
    /\ last.op = "set" /\ last.a = 3 /\ last.st = "panic"

\* ------------------------------------------------------------------ C8
\* C8: a set(index, value) with index < len() writes no slot but those on the
\* path from slot 1 to the leaf of index: every other slot of the store,
\* slot 0 among them, holds after the call what it held before.
C8_SetWritesOnlyPath ==
    [][(constructed /\ last'.op = "set" /\ last'.a \in Indices(N)) =>
          /\ last'.writes \subseteq Path(last'.a)
          /\ DOMAIN container' = DOMAIN container
          /\ \A k \in DOMAIN container \ Path(last'.a) : container'[k] = container[k]]_vars

\* A set of the last of three elements: its path is slots 1, 3 and 7.
C8_Witness ==
    /\ constructed /\ N = 3
    /\ last.op = "set" /\ last.st = "ok" /\ last.a = 2
    /\ last.writes = {1, 3, 7}

\* ------------------------------------------------------------------ C9
\* C9: after a set(index, value) with index < len(), on any tree, the leaf of
\* index stores value and every ancestor of it up to slot 1 stores
\* func(left child, right child), the left child first.
C9_SetRestoresPath ==
    (constructed /\ last.op = "set" /\ last.a \in Indices(N)) =>
        /\ last.st = "ok"
        /\ \A t \in Tree :
               t[1] \in Path(last.a) =>
                   IF t[3] - t[2] >= 2
                   THEN container[t[1]] =
                            Apply(func, container[2 * t[1]], container[2 * t[1] + 1])
                   ELSE t[2] = last.a /\ container[t[1]] = last.b

\* A set under "cat" on a tree of new whose node off the path (slot 3, over
\* elements 1..3) is still not the combination of its children.
C9_Witness ==
    /\ constructed /\ ctor = "new" /\ func = "cat" /\ N = 3
    /\ last.op = "set" /\ last.st = "ok" /\ last.a = 0
    /\ container[3] # Apply(func, container[6], container[7])
    /\ container[1] = Apply(func, container[2], container[3])

\* ----------------------------------------------------------------- C10
\* The latest call met its documented precondition.
LastInContract ==
    \/ last.op = "from_vec" /\ last.a >= 1
    \/ last.op = "get" /\ <<last.a, last.b>> \in Ranges(N)
    \/ last.op = "set" /\ last.a \in Indices(N)

====
